---- MODULE Spec2Model ----
(***************************************************************************)
(* Model of the Knowledge Synthesis plugin's concept index.               *)
(*                                                                         *)
(* ConceptGraphImpl (core/concept-graph.ts) keeps two maps:                *)
(*   notes    : path  -> NoteNode    {path, concepts[], lastUpdated}       *)
(*   concepts : label -> ConceptNode {name, notePaths[], weight}           *)
(* Arrays are modelled as sequences, so repeated labels and the order of   *)
(* notePaths are kept; Maps are modelled as functions on their key set.    *)
(***************************************************************************)
EXTENDS Integers, Sequences, FiniteSets, TLC

\* ---------------------------------------------------------------- bounds
NumPaths == 2        \* number of distinct document paths
NumLabels == 2       \* number of distinct concept labels
MaxLabels == 2       \* longest label list handed to addNote / updateNoteConcepts
MaxTime == 1         \* Date.now() returns a value in 0..MaxTime
MaxResultsArg == 1   \* largest explicit maxResults argument
NumQueryPaths == 3   \* number of documents in the related-notes queries
MaxTokens == 4       \* longest stream of words a text is built from
MaxRepeat == 5       \* how many times over that stream is written out
ArgMargin == 2       \* how far outside 1..10 the setSensitivity arguments go
NumFiles == 2        \* number of files in the vault
NumFilePaths == 3    \* number of paths a file can be at (rename targets included)
NumTexts == 2        \* number of distinct texts a file can hold
MaxMtime == 2        \* largest modification time of a file
MaxTasks == 2        \* most processNote calls in flight at once
MaxPieces == 3       \* most pieces a text is put together from
MaxCopies == 2       \* how many times over those pieces are written out
MaxStoredVersion == 2  \* largest version number a stored snapshot carries
LevelSpan == 1       \* the slider moves from the default level up to this far

AllPaths == <<"a.md", "b.md", "c.md", "d.md", "e.md">>
AllLabels == <<"latency", "error", "handling", "cache">>

Paths == {AllPaths[i] : i \in 1..NumPaths}
Labels == {AllLabels[i] : i \in 1..NumLabels}

RECURSIVE SeqsUpTo(_, _)
SeqsUpTo(S, n) ==
    IF n = 0 THEN {<<>>}
    ELSE LET shorter == SeqsUpTo(S, n - 1)
         IN shorter \cup {Append(s, x) : s \in {t \in shorter : Len(t) = n - 1}, x \in S}

LabelLists == SeqsUpTo(Labels, MaxLabels)

\* the sequence s written out k times
RECURSIVE Repeat(_, _)
Repeat(s, k) == IF k = 0 THEN <<>> ELSE s \o Repeat(s, k - 1)

\* --------------------------------------------------- array and Map helpers
Range(s) == {s[i] : i \in 1..Len(s)}

\* Array.prototype.includes
includes(s, x) == x \in Range(s)

\* Map.prototype.set / Map.prototype.delete
MapSet(m, k, v) == [x \in DOMAIN m \cup {k} |-> IF x = k THEN v ELSE m[x]]
MapDelete(m, k) == [x \in DOMAIN m \ {k} |-> m[x]]

EmptyMap == [x \in {} |-> 0]

\* ------------------------------------------------------------------ state
VARIABLES
    notes,      \* ConceptGraphImpl.notes
    concepts,   \* ConceptGraphImpl.concepts
    lastCall,   \* the last call made on the graph: its name, its arguments, and
                \* whether the path was indexed when it was made
    returned,   \* what that call returned (<<>> for the calls that return nothing)
    sensitivity,  \* ConceptExtractorImpl.sensitivity
    tokens,     \* the tokens of the text handed to the frequency strategy
    content,    \* the text handed to extractConcepts
    userFeedback,  \* ConceptExtractorImpl.userFeedback: label -> boolean
    vault,      \* the TFile objects of the vault: path, stat.mtime, text, deleted
    processedFiles,  \* NoteProcessor.processedFiles: path -> mtime
    tasks,      \* per file, the processNote calls suspended at vault.read (read)
                \* and at saveCallback (save)
    realTimeSuggestions,  \* settings.realTimeSuggestions, fixed by loadSettings
    batch,      \* the processAllNotes call in progress: its position, the files
                \* it still has to process, the files whose read failed
    data,       \* DataManagerImpl.data
    saved,      \* what the plugin's data file holds (what loadData returns)
    loaded      \* whether onload has run loadConceptData

vars == <<notes, concepts, lastCall, returned, sensitivity, tokens, content,
          userFeedback, vault, processedFiles, tasks, realTimeSuggestions,
          batch, data, saved, loaded>>

\* the extractor's part of the state
extractorVars == <<sensitivity, tokens, content, userFeedback>>

\* the note processor's and the plugin's part of the state
processorVars == <<vault, processedFiles, tasks, realTimeSuggestions, batch>>

\* the data manager's part of the state
dataVars == <<data, saved, loaded>>

\* what a call on the graph leaves alone
outsideGraph == <<extractorVars, processorVars, dataVars>>

Graph == [notes |-> notes, concepts |-> concepts]

NoCall == [op |-> "none", path |-> "", labels |-> <<>>, indexed |-> FALSE]

\* ------------------------------------------------------------------ addNote
\* the note is added to the concept's notePaths unless it is already there
pushNotePathAlways(notePaths, path) == Append(notePaths, path)

pushNotePath(notePaths, path) ==
    IF ~includes(notePaths, path) THEN Append(notePaths, path) ELSE notePaths

\* conceptNode.weight = conceptNode.notePaths.length
keepWeight(conceptNode) == conceptNode

recomputeWeight(conceptNode) ==
    [conceptNode EXCEPT !.weight = Len(conceptNode.notePaths)]

\* this.concepts.get(concept) || {name, notePaths: [], weight: 1}
getOrCreateConcept(cs, concept) ==
    IF concept \in DOMAIN cs
    THEN cs[concept]
    ELSE [name |-> concept, notePaths |-> <<>>, weight |-> 1]

\* the loop over the labels handed to addNote
RECURSIVE addNoteConcepts(_, _, _)
addNoteConcepts(cs, path, labels) ==
    IF labels = <<>> THEN cs
    ELSE LET concept == Head(labels)
             conceptNode == getOrCreateConcept(cs, concept)
             pushed == [conceptNode EXCEPT
                          !.notePaths = pushNotePath(conceptNode.notePaths, path)]
         IN addNoteConcepts(MapSet(cs, concept, recomputeWeight(pushed)),
                            path, Tail(labels))

\* this.notes.set(path, {path, concepts, lastUpdated: Date.now()})
mergeNoteNode(ns, path, labels, t) ==
    [path |-> path,
     concepts |-> IF path \in DOMAIN ns THEN ns[path].concepts \o labels ELSE labels,
     lastUpdated |-> t]

newNoteNode(ns, path, labels, t) ==
    [path |-> path, concepts |-> labels, lastUpdated |-> t]

addNote(g, path, labels, t) ==
    [notes |-> MapSet(g.notes, path, newNoteNode(g.notes, path, labels, t)),
     concepts |-> addNoteConcepts(g.concepts, path, labels)]

\* --------------------------------------------------------------- removeNote
\* conceptNode.notePaths.filter(p => p !== path)
filterOut(notePaths, path) == SelectSeq(notePaths, LAMBDA p : p # path)

\* the concept is dropped when its last note goes, otherwise written back
storeAlways(cs, concept, conceptNode) == MapSet(cs, concept, conceptNode)

deleteIfEmpty(cs, concept, conceptNode) ==
    IF Len(conceptNode.notePaths) = 0
    THEN MapDelete(cs, concept)
    ELSE MapSet(cs, concept, conceptNode)

\* the loop over the removed note's labels
RECURSIVE removeNoteConcepts(_, _, _)
removeNoteConcepts(cs, path, labels) ==
    IF labels = <<>> THEN cs
    ELSE LET concept == Head(labels)
         IN IF concept \notin DOMAIN cs
            THEN removeNoteConcepts(cs, path, Tail(labels))
            ELSE LET filtered == [cs[concept] EXCEPT
                                    !.notePaths = filterOut(cs[concept].notePaths, path)]
                     conceptNode == [filtered EXCEPT !.weight = Len(filtered.notePaths)]
                 IN removeNoteConcepts(deleteIfEmpty(cs, concept, conceptNode),
                                       path, Tail(labels))

\* every label of the graph, in some order
RECURSIVE SetToSeq(_)
SetToSeq(S) ==
    IF S = {} THEN <<>>
    ELSE LET x == CHOOSE y \in S : TRUE IN <<x>> \o SetToSeq(S \ {x})

removeNoteUnguarded(g, path) ==
    [notes |-> MapDelete(g.notes, path),
     concepts |-> removeNoteConcepts(g.concepts, path,
                     IF path \in DOMAIN g.notes
                     THEN g.notes[path].concepts
                     ELSE SetToSeq(DOMAIN g.concepts))]

removeNote(g, path) ==
    IF path \notin DOMAIN g.notes
    THEN g
    ELSE [notes |-> MapDelete(g.notes, path),
          concepts |-> removeNoteConcepts(g.concepts, path, g.notes[path].concepts)]

\* -------------------------------------------------------- updateNoteConcepts
updateNoteConcepts(g, path, newConcepts, t) ==
    [notes |-> MapSet(g.notes, path,
                      [path |-> path, concepts |-> newConcepts, lastUpdated |-> t]),
     concepts |-> g.concepts]

\* ----------------------------------------------------------- getNoteConcepts
getNoteConcepts(g, notePath) ==
    IF notePath \in DOMAIN g.notes THEN g.notes[notePath].concepts ELSE <<>>

\* ---------------------------------------------------------- findRelatedNotes
DefaultMaxResults == 10

\* scores: a Map path -> {relevance, sharedConcepts}; order is its insertion order
EmptyScores == [order |-> <<>>, data |-> EmptyMap]

\* the inner loop over the notes of one concept of the target note
RECURSIVE scoreNotePaths(_, _, _, _, _)
scoreNotePaths(scores, concept, conceptNode, notePath, relatedPaths) ==
    IF relatedPaths = <<>> THEN scores
    ELSE LET relatedPath == Head(relatedPaths)
         IN IF relatedPath = notePath
            THEN scoreNotePaths(scores, concept, conceptNode, notePath, Tail(relatedPaths))
            ELSE LET known == relatedPath \in DOMAIN scores.data
                     scoreData == IF known THEN scores.data[relatedPath]
                                  ELSE [relevance |-> 0, sharedConcepts |-> <<>>]
                     updated ==
                         [relevance |-> scoreData.relevance + conceptNode.weight,
                          sharedConcepts |->
                              IF ~includes(scoreData.sharedConcepts, concept)
                              THEN Append(scoreData.sharedConcepts, concept)
                              ELSE scoreData.sharedConcepts]
                 IN scoreNotePaths(
                        [order |-> IF known THEN scores.order
                                   ELSE Append(scores.order, relatedPath),
                         data |-> MapSet(scores.data, relatedPath, updated)],
                        concept, conceptNode, notePath, Tail(relatedPaths))

\* the outer loop over the target note's labels
RECURSIVE scoreConcepts(_, _, _, _)
scoreConcepts(scores, cs, notePath, labels) ==
    IF labels = <<>> THEN scores
    ELSE LET concept == Head(labels)
         IN IF concept \notin DOMAIN cs
            THEN scoreConcepts(scores, cs, notePath, Tail(labels))
            ELSE scoreConcepts(
                     scoreNotePaths(scores, concept, cs[concept], notePath,
                                    cs[concept].notePaths),
                     cs, notePath, Tail(labels))

\* the scores Map findRelatedNotes builds for an indexed note
relatedScores(g, notePath) ==
    scoreConcepts(EmptyScores, g.concepts, notePath, g.notes[notePath].concepts)

\* Math.max(...scores, 1)
SetMax(S) == CHOOSE x \in S : \A y \in S : y <= x
maxScoreOf(scores) ==
    SetMax({scores.data[p].relevance : p \in DOMAIN scores.data} \cup {1})

\* relevance = data.relevance / maxScore, kept as the fraction num/den
\* entries whose path the vault does not resolve to a file are skipped
RECURSIVE toRelatedNotes(_, _, _, _)
toRelatedNotes(scores, order, maxScore, files) ==
    IF order = <<>> THEN <<>>
    ELSE LET path == Head(order)
             rest == toRelatedNotes(scores, Tail(order), maxScore, files)
         IN IF path \notin files THEN rest
            ELSE <<[file |-> path,
                    relevance |-> [num |-> scores.data[path].relevance, den |-> maxScore],
                    sharedConcepts |-> scores.data[path].sharedConcepts]>> \o rest

\* b.relevance - a.relevance > 0: b sorts before a
RelevanceLess(a, b) == a.num * b.den < b.num * a.den

\* Array.prototype.sort((a, b) => b.relevance - a.relevance): stable, descending
RECURSIVE insertByRelevance(_, _)
insertByRelevance(sorted, x) ==
    IF sorted = <<>> THEN <<x>>
    ELSE IF RelevanceLess(Head(sorted).relevance, x.relevance)
         THEN <<x>> \o sorted
         ELSE <<Head(sorted)>> \o insertByRelevance(Tail(sorted), x)

unsorted(s) == s

RECURSIVE sortByRelevance(_)
sortByRelevance(s) ==
    IF s = <<>> THEN <<>>
    ELSE insertByRelevance(sortByRelevance(SubSeq(s, 1, Len(s) - 1)), s[Len(s)])

\* Array.prototype.slice(0, n) for n >= 0
slice(s, n) == SubSeq(s, 1, IF n < Len(s) THEN n ELSE Len(s))

findRelatedNotesUnguarded(g, notePath, maxResults, files) ==
    LET labels == IF notePath \in DOMAIN g.notes
                  THEN g.notes[notePath].concepts
                  ELSE SetToSeq(DOMAIN g.concepts)
        scores == scoreConcepts(EmptyScores, g.concepts, notePath, labels)
        relatedNotes == toRelatedNotes(scores, scores.order, maxScoreOf(scores), files)
    IN slice(sortByRelevance(relatedNotes), maxResults)

findRelatedNotes(g, notePath, maxResults, files) ==
    IF notePath \notin DOMAIN g.notes
    THEN <<>>
    ELSE LET scores == relatedScores(g, notePath)
             relatedNotes == toRelatedNotes(scores, scores.order, maxScoreOf(scores), files)
         IN slice(sortByRelevance(relatedNotes), maxResults)

\* --------------------------------------------------------- getConceptNetwork
\* the keys of a Map as a sequence; the order of the Map's entries is not
\* tracked, the sequence lists them in one fixed order
RECURSIVE KeysOf(_)
KeysOf(S) ==
    IF S = {} THEN <<>>
    ELSE LET x == CHOOSE y \in S : TRUE IN <<x>> \o KeysOf(S \ {x})

\* `concept-${name}`
conceptNodeId(name) == "concept-" \o name

\* one node per entry of this.notes (the paths of the model hold no '/', so
\* path.split('/').pop() || path is the path)
RECURSIVE noteNodes(_)
noteNodes(paths) ==
    IF paths = <<>> THEN <<>>
    ELSE <<[id |-> Head(paths), label |-> Head(paths), type |-> "note"]>>
         \o noteNodes(Tail(paths))

\* concept.notePaths.length > 1
shownInNetworkAlways(concept) == Len(concept.notePaths) >= 1

shownInNetwork(concept) == Len(concept.notePaths) > 1

RECURSIVE conceptNodes(_, _)
conceptNodes(cs, names) ==
    IF names = <<>> THEN <<>>
    ELSE LET name == Head(names)
             rest == conceptNodes(cs, Tail(names))
         IN IF shownInNetwork(cs[name])
            THEN <<[id |-> conceptNodeId(name), label |-> name, type |-> "concept",
                    weight |-> cs[name].weight]>> \o rest
            ELSE rest

\* the edges of one concept: one per entry of its notePaths
RECURSIVE edgesOf(_, _)
edgesOf(name, notePaths) ==
    IF notePaths = <<>> THEN <<>>
    ELSE <<[source |-> conceptNodeId(name), target |-> Head(notePaths), value |-> 1]>>
         \o edgesOf(name, Tail(notePaths))

RECURSIVE conceptEdges(_, _)
conceptEdges(cs, names) ==
    IF names = <<>> THEN <<>>
    ELSE LET name == Head(names)
             rest == conceptEdges(cs, Tail(names))
         IN IF shownInNetwork(cs[name])
            THEN edgesOf(name, cs[name].notePaths) \o rest
            ELSE rest

getConceptNetwork(g) ==
    LET names == KeysOf(DOMAIN g.concepts)
    IN [nodes |-> noteNodes(KeysOf(DOMAIN g.notes)) \o conceptNodes(g.concepts, names),
        edges |-> conceptEdges(g.concepts, names)]

\* ------------------------------------------------------------------- texts
\* A text (a JavaScript string) is the sequence of its characters, each a
\* one-character string; a label or token is the string asString makes of it.
UpperCase ==
    <<"A", "B", "C", "D", "E", "F", "G", "H", "I", "J", "K", "L", "M",
      "N", "O", "P", "Q", "R", "S", "T", "U", "V", "W", "X", "Y", "Z">>

LowerCase ==
    <<"a", "b", "c", "d", "e", "f", "g", "h", "i", "j", "k", "l", "m",
      "n", "o", "p", "q", "r", "s", "t", "u", "v", "w", "x", "y", "z">>

Digits == {"0", "1", "2", "3", "4", "5", "6", "7", "8", "9"}

\* the character classes \s and \w, and what . does not match
Whitespace == {" ", "\n", "\t"}
WordChars == Range(UpperCase) \cup Range(LowerCase) \cup Digits \cup {"_"}
LineEnd == "\n"

\* String.prototype.toLowerCase, on one character
toLowerCase(ch) ==
    IF ch \in Range(UpperCase)
    THEN LowerCase[CHOOSE i \in 1..Len(UpperCase) : UpperCase[i] = ch]
    ELSE ch

RECURSIVE asString(_)
asString(t) == IF t = <<>> THEN "" ELSE Head(t) \o asString(Tail(t))

\* String.prototype.trim
RECURSIVE trimStart(_)
trimStart(t) ==
    IF t # <<>> /\ Head(t) \in Whitespace THEN trimStart(Tail(t)) ELSE t

RECURSIVE trimEnd(_)
trimEnd(t) ==
    IF t # <<>> /\ t[Len(t)] \in Whitespace
    THEN trimEnd(SubSeq(t, 1, Len(t) - 1))
    ELSE t

trim(t) == trimEnd(trimStart(t))

\* the first index from p on whose character is in S, Len(t) + 1 when none is
RECURSIVE indexOf(_, _, _)
indexOf(t, S, p) ==
    IF p > Len(t) \/ t[p] \in S THEN p ELSE indexOf(t, S, p + 1)

\* the first index from p on whose character is not in S
RECURSIVE endOfRun(_, _, _)
endOfRun(t, S, p) ==
    IF p > Len(t) \/ t[p] \notin S THEN p ELSE endOfRun(t, S, p + 1)

\* String.prototype.split(sep) for a one-character separator
RECURSIVE split(_, _)
split(t, sep) ==
    LET i == indexOf(t, {sep}, 1)
    IN IF i > Len(t) THEN <<t>>
       ELSE <<SubSeq(t, 1, i - 1)>> \o split(SubSeq(t, i + 1, Len(t)), sep)

\* String.prototype.split(/[S]+/): the separators are the runs of characters of S
RECURSIVE splitRuns(_, _)
splitRuns(t, S) ==
    LET i == indexOf(t, S, 1)
    IN IF i > Len(t) THEN <<t>>
       ELSE <<SubSeq(t, 1, i - 1)>>
                \o splitRuns(SubSeq(t, endOfRun(t, S, i), Len(t)), S)

\* a copy that keeps every occurrence
withRepeats(s) == s

\* [...new Set(s)]: the first occurrence of each element, in order
RECURSIVE unique(_)
unique(s) ==
    IF s = <<>> THEN <<>>
    ELSE LET before == unique(SubSeq(s, 1, Len(s) - 1))
         IN IF includes(before, s[Len(s)]) THEN before ELSE Append(before, s[Len(s)])

\* replace(/\s+/g, ' ')
RECURSIVE collapseWhitespace(_)
collapseWhitespace(t) ==
    IF t = <<>> THEN <<>>
    ELSE IF Head(t) \in Whitespace
         THEN <<" ">> \o collapseWhitespace(trimStart(Tail(t)))
         ELSE <<Head(t)>> \o collapseWhitespace(Tail(t))

\* TextProcessingUtils.tokenize
tokenize(t) ==
    LET lowered == [i \in 1..Len(t) |-> toLowerCase(t[i])]
        spaced == [i \in 1..Len(t) |->
                      IF lowered[i] \in WordChars \cup Whitespace THEN lowered[i] ELSE " "]
        normalized == trim(collapseWhitespace(spaced))
        parts == split(normalized, " ")
    IN [i \in 1..Len(parts) |-> asString(parts[i])]

\* /^[A-Z][a-z]+$/.test(word)
isCapitalized(word) ==
    /\ Len(word) >= 2
    /\ word[1] \in Range(UpperCase)
    /\ \A i \in 2..Len(word) : word[i] \in Range(LowerCase)

\* the entities the loop over the words of one sentence pushes
entitiesOfWords(words) ==
    LET at(i) ==
            (IF i > 1 /\ isCapitalized(words[i])
             THEN <<asString(words[i])>> ELSE <<>>)
            \o (IF i < Len(words) /\ isCapitalized(words[i]) /\ isCapitalized(words[i + 1])
                THEN <<asString(words[i] \o <<" ">> \o words[i + 1])>> ELSE <<>>)
        RECURSIVE upTo(_)
        upTo(n) == IF n = 0 THEN <<>> ELSE upTo(n - 1) \o at(n)
    IN upTo(Len(words))

RECURSIVE entitiesOfSentences(_)
entitiesOfSentences(sentences) ==
    IF sentences = <<>> THEN <<>>
    ELSE entitiesOfWords(split(trim(Head(sentences)), " "))
             \o entitiesOfSentences(Tail(sentences))

\* TextProcessingUtils.extractNamedEntities
extractNamedEntities(t) == unique(entitiesOfSentences(splitRuns(t, {".", "!", "?"})))

\* ---------------------------------------------------------- text processing
\* TextProcessingUtils.stopWords
stopWords ==
    {"a", "an", "the", "and", "or", "but", "is", "are", "was", "were",
     "be", "been", "being", "have", "has", "had", "do", "does", "did",
     "of", "as", "like", "if", "that", "you", "with", "your", "through",
     "to", "from", "in", "out", "on", "off", "over", "under", "again",
     "further", "then", "once", "here", "there", "when", "where", "why",
     "how", "all", "any", "both", "each", "few", "more", "most", "other",
     "some", "such", "no", "nor", "not", "only", "own", "same", "so",
     "than", "too", "very", "can", "will", "just", "should", "now"}

\* tokenize of a blank text: "".split(' ')
BlankTokens == <<"">>

\* tokens.filter(token => !stopWords.has(token) && token.length > 1)
keepsStopWords(toks) ==
    LET kept(token) == Len(token) > 1
    IN SelectSeq(toks, kept)

removeStopWords(toks) ==
    LET kept(token) == token \notin stopWords /\ Len(token) > 1
    IN SelectSeq(toks, kept)

\* The Map calculateTermFrequency builds, as the array of its entries in
\* insertion order (Array.from(termFrequency.entries())): a term is entered at
\* its first occurrence and counted up at each later one.
RECURSIVE calculateTermFrequency(_)
calculateTermFrequency(toks) ==
    IF toks = <<>> THEN <<>>
    ELSE LET before == calculateTermFrequency(SubSeq(toks, 1, Len(toks) - 1))
             token == toks[Len(toks)]
             at == {i \in 1..Len(before) : before[i].term = token}
         IN IF at = {}
            THEN Append(before, [term |-> token, freq |-> 1])
            ELSE [before EXCEPT ![CHOOSE i \in at : TRUE].freq = @ + 1]

\* ---------------------------------------------------------- ConceptExtractor
DefaultSensitivity == 5
MinSensitivity == 1
MaxSensitivity == 10

\* Math.max / Math.min on integers
MathMax(a, b) == IF a >= b THEN a ELSE b
MathMin(a, b) == IF a <= b THEN a ELSE b

\* the value setSensitivity stores
setSensitivityNoFloor(s) == MathMin(MaxSensitivity, s)

setSensitivity(s) == MathMax(MinSensitivity, MathMin(MaxSensitivity, s))

\* Math.max(2, Math.floor(20 / (11 - this.sensitivity)))
threshold(s) == MathMax(2, 20 \div (11 - s))

\* this.sensitivity * 3
cap(s) == s * 3

\* Array.prototype.sort((a, b) => b[1] - a[1]): stable, descending by count
RECURSIVE insertByFrequency(_, _)
insertByFrequency(sorted, x) ==
    IF sorted = <<>> THEN <<x>>
    ELSE IF Head(sorted).freq < x.freq
         THEN <<x>> \o sorted
         ELSE <<Head(sorted)>> \o insertByFrequency(Tail(sorted), x)

RECURSIVE sortByFrequency(_)
sortByFrequency(s) ==
    IF s = <<>> THEN <<>>
    ELSE insertByFrequency(sortByFrequency(SubSeq(s, 1, Len(s) - 1)), s[Len(s)])

\* extractFromTfIdf on a text that tokenize turns into toks, at sensitivity s
extractFromTfIdf(toks, s) ==
    LET filteredTokens == removeStopWords(toks)
        termFrequency == calculateTermFrequency(filteredTokens)
        frequent(e) == e.freq >= threshold(s)
        sortedTerms == slice(sortByFrequency(SelectSeq(termFrequency, frequent)), cap(s))
    IN [i \in 1..Len(sortedTerms) |-> sortedTerms[i].term]

\* One match of /^#+\s+(.+)$/m starting at p: p begins a line, a run of '#'
\* follows, then as much whitespace as leaves a character other than a line
\* end for the group, which runs to the end of that line.
headingAt(t, p) ==
    LET hashEnd == endOfRun(t, {"#"}, p)
        spaceEnd == endOfRun(t, Whitespace, hashEnd)
        starts == {r \in (hashEnd + 1)..spaceEnd : r <= Len(t) /\ t[r] # LineEnd}
        from == CHOOSE r \in starts : \A q \in starts : q <= r
    IN IF /\ (p = 1 \/ t[p - 1] = LineEnd)
          /\ hashEnd > p
          /\ starts # {}
       THEN [found |-> TRUE, from |-> from, to |-> indexOf(t, {LineEnd}, from) - 1]
       ELSE [found |-> FALSE, from |-> 0, to |-> 0]

RECURSIVE headingsFrom(_, _)
headingsFrom(t, p) ==
    IF p > Len(t) THEN <<>>
    ELSE LET m == headingAt(t, p)
         IN IF m.found
            THEN <<asString(trim(SubSeq(t, m.from, m.to)))>> \o headingsFrom(t, m.to + 1)
            ELSE headingsFrom(t, p + 1)

\* ConceptExtractorImpl.extractFromHeadings
extractFromHeadings(t) == headingsFrom(t, 1)

\* the least j >= from where the closing delimiter (the character d, width
\* times) stands, with no line end between; 0 when there is none
closingAt(t, d, width, from) ==
    LET stop == indexOf(t, {LineEnd}, from)
        closes == {j \in from..(stop - 1) :
                      \A k \in 0..(width - 1) : j + k <= Len(t) /\ t[j + k] = d}
    IN IF closes = {} THEN 0 ELSE CHOOSE j \in closes : \A q \in closes : j <= q

\* One match of /(\*\*|__)(.*?)\1|(\*|_)(.*?)\3/ starting at p: the doubled
\* delimiter first, the single one when that fails.
emphasisAt(t, p) ==
    LET d == t[p]
        doubled == IF p + 1 <= Len(t) /\ t[p + 1] = d THEN closingAt(t, d, 2, p + 2) ELSE 0
        single == closingAt(t, d, 1, p + 1)
    IN IF d \notin {"*", "_"} THEN [found |-> FALSE, from |-> 0, to |-> 0, next |-> 0]
       ELSE IF doubled # 0
            THEN [found |-> TRUE, from |-> p + 2, to |-> doubled - 1, next |-> doubled + 2]
       ELSE IF single # 0
            THEN [found |-> TRUE, from |-> p + 1, to |-> single - 1, next |-> single + 1]
       ELSE [found |-> FALSE, from |-> 0, to |-> 0, next |-> 0]

RECURSIVE emphasisFrom(_, _)
emphasisFrom(t, p) ==
    IF p > Len(t) THEN <<>>
    ELSE LET m == emphasisAt(t, p)
             text == trim(SubSeq(t, m.from, m.to))
         IN IF m.found
            THEN (IF text # <<>> THEN <<asString(text)>> ELSE <<>>)
                     \o emphasisFrom(t, m.next)
            ELSE emphasisFrom(t, p + 1)

\* ConceptExtractorImpl.extractFromEmphasis
extractFromEmphasis(t) == emphasisFrom(t, 1)

\* concepts.filter: a label stays unless its feedback is false
ignoresFeedback(fb, concept) == TRUE

passesFeedback(fb, concept) == ~(concept \in DOMAIN fb /\ fb[concept] = FALSE)

\* every token of the text taken as a concept
extractTokens(t, s, fb) == unique(tokenize(t))

\* ConceptExtractorImpl.extractConcepts at sensitivity s with feedback fb
extractConcepts(t, s, fb) ==
    IF trim(t) = <<>> THEN <<>>
    ELSE LET found == extractFromTfIdf(tokenize(t), s)
                          \o extractFromHeadings(t)
                          \o extractFromEmphasis(t)
                          \o extractNamedEntities(t)
             kept(concept) == passesFeedback(fb, concept)
         IN unique(SelectSeq(found, kept))

\* ------------------------------------------------------------ NoteProcessor
\* The files are markdown files; file f starts at path AllPaths[f]. Text n is
\* plain prose that repeats each of the first n labels three times (the empty
\* text for n = 0), so at the default sensitivity extractConcepts finds in it
\* the first n labels, by the frequency strategy.
FileIds == 1..NumFiles

FilePaths == {AllPaths[i] : i \in 1..NumFilePaths}

LabelChars ==
    << <<"l", "a", "t", "e", "n", "c", "y">>, <<"e", "r", "r", "o", "r">>,
       <<"h", "a", "n", "d", "l", "i", "n", "g">>, <<"c", "a", "c", "h", "e">> >>

RECURSIVE Prose(_)
Prose(n) == IF n = 0 THEN <<>> ELSE Prose(n - 1) \o LabelChars[n] \o <<" ">>

TextOf(n) == Repeat(Prose(n), 3)

Texts == {TextOf(n) : n \in 0..(NumTexts - 1)}

\* The processNote calls of one file that are suspended: read counts those at
\* vault.read and save those at saveCallback. mayRead holds, for each pending
\* read from the oldest to the newest, the texts it can resolve with: those
\* the file held at some moment since the read was called.
NoTasks == [read |-> 0, save |-> 0, mayRead |-> <<>>]

\* processAllNotes is not running; files are the files its loop has still to
\* visit, listed the files it started with, failed those whose read was
\* rejected and indexed those it has added to the graph
NoBatch == [pc |-> "idle", files |-> <<>>, listed |-> <<>>, failed |-> {}, indexed |-> {}]

ProcessorInit ==
    /\ vault = [f \in FileIds |->
                   [path |-> AllPaths[f], mtime |-> 1, text |-> TextOf(0), deleted |-> FALSE]]
    /\ processedFiles = EmptyMap
    /\ tasks = [f \in FileIds |-> NoTasks]
    /\ batch = NoBatch

\* ------------------------------------------------------------- DataManager
CURRENT_VERSION == 1

\* the data the constructor and clearData install
EmptyData ==
    [version |-> CURRENT_VERSION, notes |-> EmptyMap, concepts |-> EmptyMap,
     userFeedback |-> EmptyMap]

\* The data file: none (loadData returns null), corrupt (loadData throws), or
\* an object, given as the function from its keys to their values.
NoFile == [kind |-> "none"]
CorruptFile == [kind |-> "corrupt"]
FileOf(object) == [kind |-> "object", value |-> object]

\* the plugin after onload, on a first start: nothing stored, nothing loaded
DataInit ==
    /\ data = EmptyData
    /\ saved = NoFile
    /\ loaded = TRUE

\* !lastProcessed || lastProcessed < lastModified, for a markdown file
shouldProcessNote(pf, file) ==
    \/ file.path \notin DOMAIN pf
    \/ pf[file.path] = 0
    \/ pf[file.path] < file.mtime

InFlight == [f \in FileIds |-> tasks[f].read + tasks[f].save]

RECURSIVE SumUpTo(_, _)
SumUpTo(fn, n) == IF n = 0 THEN 0 ELSE fn[n] + SumUpTo(fn, n - 1)

\* a processNote that reads the file whatever processedFiles records
startAlways(tk, pf, f, file) ==
    [tk EXCEPT ![f].read = @ + 1, ![f].mayRead = Append(@, {file.text})]

\* the synchronous start of processNote(file): return at once when the file
\* needs no processing, else suspend at vault.read
startProcessNote(tk, pf, f, file) ==
    IF shouldProcessNote(pf, file)
    THEN [tk EXCEPT ![f].read = @ + 1, ![f].mayRead = Append(@, {file.text})]
    ELSE tk

\* the file is written while reads of it are pending: each may still
\* resolve with what it has read, or with the new text
written(tk, f, text) ==
    LET pending == tk[f].mayRead
    IN [tk EXCEPT ![f].mayRead = [i \in 1..Len(pending) |-> pending[i] \cup {text}]]

\* s without its element i
dropAt(s, i) == SubSeq(s, 1, i - 1) \o SubSeq(s, i + 1, Len(s))

\* ------------------------------------------------------------------ actions
\* addNote when Date.now() returns t
AddNoteAt(path, labels, t) ==
    LET g == addNote(Graph, path, labels, t)
    IN /\ notes' = g.notes
       /\ concepts' = g.concepts
       /\ lastCall' = [op |-> "addNote", path |-> path, labels |-> labels,
                        indexed |-> path \in DOMAIN notes]
       /\ returned' = <<>>
       /\ UNCHANGED outsideGraph

AddNote(path, labels) == \E t \in 0..MaxTime : AddNoteAt(path, labels, t)

RemoveNote(path) ==
    LET g == removeNote(Graph, path)
    IN /\ notes' = g.notes
       /\ concepts' = g.concepts
       /\ lastCall' = [op |-> "removeNote", path |-> path, labels |-> <<>>,
                    indexed |-> path \in DOMAIN notes]
       /\ returned' = <<>>
       /\ UNCHANGED outsideGraph

UpdateNoteConcepts(path, labels) ==
    \E t \in 0..MaxTime :
        LET g == updateNoteConcepts(Graph, path, labels, t)
        IN /\ notes' = g.notes
           /\ concepts' = g.concepts
           /\ lastCall' = [op |-> "updateNoteConcepts", path |-> path, labels |-> labels,
                            indexed |-> path \in DOMAIN notes]
           /\ returned' = <<>>
           /\ UNCHANGED outsideGraph

GetNoteConcepts(path) ==
    /\ lastCall' = [op |-> "getNoteConcepts", path |-> path, labels |-> <<>>,
                    indexed |-> path \in DOMAIN notes]
    /\ returned' = getNoteConcepts(Graph, path)
    /\ UNCHANGED <<notes, concepts>>
    /\ UNCHANGED outsideGraph

\* files: the paths the vault resolves to a file when the query runs
FindRelatedNotes(path, maxResults, files) ==
    /\ lastCall' = [op |-> "findRelatedNotes", path |-> path, labels |-> <<>>,
                    indexed |-> path \in DOMAIN notes,
                    maxResults |-> maxResults, files |-> files]
    /\ returned' = findRelatedNotes(Graph, path, maxResults, files)
    /\ UNCHANGED <<notes, concepts>>
    /\ UNCHANGED outsideGraph

\* a network query that drops the concepts it does not show
GetConceptNetworkPruning ==
    /\ lastCall' = [op |-> "getConceptNetwork", path |-> "", labels |-> <<>>,
                    indexed |-> FALSE]
    /\ returned' = getConceptNetwork(Graph)
    /\ concepts' = [c \in {x \in DOMAIN concepts : shownInNetwork(concepts[x])}
                      |-> concepts[c]]
    /\ UNCHANGED notes
    /\ UNCHANGED outsideGraph

GetConceptNetwork ==
    /\ lastCall' = [op |-> "getConceptNetwork", path |-> "", labels |-> <<>>,
                    indexed |-> FALSE]
    /\ returned' = getConceptNetwork(Graph)
    /\ UNCHANGED <<notes, concepts>>
    /\ UNCHANGED outsideGraph

Init ==
    /\ notes = EmptyMap
    /\ concepts = EmptyMap
    /\ lastCall = NoCall
    /\ returned = <<>>
    /\ sensitivity = DefaultSensitivity
    /\ tokens = BlankTokens
    /\ content = <<>>
    /\ userFeedback = EmptyMap
    /\ ProcessorInit
    /\ DataInit
    /\ realTimeSuggestions = TRUE

Next ==
    \/ \E path \in Paths, labels \in LabelLists : AddNote(path, labels)
    \/ \E path \in Paths : RemoveNote(path)
    \/ \E path \in Paths, labels \in LabelLists : UpdateNoteConcepts(path, labels)
    \/ \E path \in Paths : GetNoteConcepts(path)
    \/ \E path \in Paths, files \in SUBSET Paths :
           FindRelatedNotes(path, DefaultMaxResults, files)
    \/ GetConceptNetwork

Spec == Init /\ [][Next]_vars

\* --------------------------------------------------------- addConceptToNote
\* KnowledgeSynthesisPlugin.addConceptToNote up to its save: getNoteConcepts
\* hands out the note's own array, so the push already changes the note, and
\* addNote then stores that same array
addConceptToNote(g, filePath, concept, t) ==
    LET held == getNoteConcepts(g, filePath)
    IN IF ~includes(held, concept)
       THEN addNote(g, filePath, Append(held, concept), t)
       ELSE g

AddConceptToNote(filePath, concept) ==
    \E t \in 0..MaxTime :
        LET g == addConceptToNote(Graph, filePath, concept, t)
            added == ~includes(getNoteConcepts(Graph, filePath), concept)
        IN /\ notes' = g.notes
           /\ concepts' = g.concepts
           /\ saved' = IF added THEN FileOf(data) ELSE saved
           /\ lastCall' = [op |-> "addConceptToNote", path |-> filePath,
                            labels |-> getNoteConcepts(Graph, filePath),
                            indexed |-> filePath \in DOMAIN notes,
                            concept |-> concept]
           /\ returned' = <<>>
           /\ UNCHANGED <<extractorVars, processorVars, data, loaded>>

\* the calls of the plugin that write the graph
ApiNext ==
    \/ \E path \in Paths, labels \in LabelLists : AddNote(path, labels)
    \/ \E path \in Paths : RemoveNote(path)
    \/ \E path \in Paths, labels \in LabelLists : UpdateNoteConcepts(path, labels)
    \/ \E path \in Paths, concept \in Labels : AddConceptToNote(path, concept)

ApiSpec == Init /\ [][ApiNext]_vars

\* the same without updateNoteConcepts
IndexNext ==
    \/ \E path \in Paths, labels \in LabelLists : AddNote(path, labels)
    \/ \E path \in Paths : RemoveNote(path)
    \/ \E path \in Paths, concept \in Labels : AddConceptToNote(path, concept)

IndexSpec == Init /\ [][IndexNext]_vars

\* ------------------------------------------------- the related-notes queries
\* Queries over three documents, so that a query has two candidates: notes are
\* indexed at time 0 with the first n labels (n = 0..NumLabels), and
\* findRelatedNotes is called with an explicit or the default maxResults; files
\* are the other paths the vault resolves to a file.
QueryPaths == {AllPaths[i] : i \in 1..NumQueryPaths}

QueryLabelLists == {SubSeq(AllLabels, 1, n) : n \in 0..NumLabels}

QueryNext ==
    \/ \E path \in QueryPaths, labels \in QueryLabelLists : AddNoteAt(path, labels, 0)
    \/ \E path \in QueryPaths : RemoveNote(path)
    \/ \E path \in QueryPaths, maxResults \in 1..MaxResultsArg \cup {DefaultMaxResults} :
          \E files \in SUBSET (QueryPaths \ {path}) :
              FindRelatedNotes(path, maxResults, files)

QuerySpec == Init /\ [][QueryNext]_vars

\* ------------------------------------------------------------ the extractor
\* The texts handed to the frequency strategy, as the tokens tokenize returns
\* for them: every stream of up to MaxTokens words of the vocabulary, written
\* out one to MaxRepeat times over, the blank text, and the error-handling text.
Vocabulary == Range(AllLabels) \cup {"the", "x"}

ScenarioTokens ==
    <<"handling", "error", "timeout", "error", "handling", "retry", "error",
      "parser", "handling", "error", "socket", "queue", "buffer", "thread",
      "kernel", "packet", "stream">>

TokenStreams ==
    {Repeat(b, k) : b \in SeqsUpTo(Vocabulary, MaxTokens) \ {<<>>}, k \in 1..MaxRepeat}
        \cup {BlankTokens, ScenarioTokens}

\* the integers handed to setSensitivity
SensitivityArgs == (MinSensitivity - ArgMargin)..(MaxSensitivity + ArgMargin)

SetSensitivity(level) ==
    /\ sensitivity' = setSensitivity(level)
    /\ lastCall' = [op |-> "setSensitivity", path |-> "", labels |-> <<>>,
                    indexed |-> FALSE, level |-> level]
    /\ returned' = <<>>
    /\ UNCHANGED <<notes, concepts, tokens, content, userFeedback,
                   processorVars, dataVars>>

ExtractFromTfIdf ==
    /\ lastCall' = [op |-> "extractFromTfIdf", path |-> "", labels |-> <<>>,
                    indexed |-> FALSE]
    /\ returned' = extractFromTfIdf(tokens, sensitivity)
    /\ UNCHANGED <<notes, concepts, extractorVars, processorVars, dataVars>>

ExtractInit ==
    /\ notes = EmptyMap
    /\ concepts = EmptyMap
    /\ lastCall = NoCall
    /\ returned = <<>>
    /\ sensitivity = DefaultSensitivity
    /\ tokens \in TokenStreams
    /\ content = <<>>
    /\ userFeedback = EmptyMap
    /\ ProcessorInit
    /\ DataInit
    /\ realTimeSuggestions = TRUE

ExtractNext ==
    \/ \E level \in SensitivityArgs : SetSensitivity(level)
    \/ ExtractFromTfIdf

ExtractSpec == ExtractInit /\ [][ExtractNext]_vars

\* ------------------------------------------------------- concept extraction
\* The texts handed to extractConcepts: up to MaxPieces pieces put together,
\* the whole written out one to MaxCopies times over. The pieces bring a word,
\* a capitalised word, whitespace, a sentence end and the heading and emphasis
\* marks.
Pieces ==
    {<<"a", "b">>, <<"C", "d">>, <<" ">>, <<"\n">>, <<".">>, <<"#">>, <<"*">>, <<"_">>}

RECURSIVE flatten(_)
flatten(ps) == IF ps = <<>> THEN <<>> ELSE Head(ps) \o flatten(Tail(ps))

Contents ==
    {Repeat(flatten(ps), k) : ps \in SeqsUpTo(Pieces, MaxPieces), k \in 1..MaxCopies}

\* the labels feedback is given on
FeedbackLabels == {"ab", "Cd"}

\* feedback that also takes the label out of every note of the graph
LearnAndRefilter(concept, isRelevant) ==
    /\ userFeedback' = MapSet(userFeedback, concept, isRelevant)
    /\ LET kept(label) == isRelevant \/ label # concept
       IN notes' = [path \in DOMAIN notes |->
                       [notes[path] EXCEPT !.concepts = SelectSeq(@, kept)]]
    /\ concepts' = IF isRelevant THEN concepts ELSE MapDelete(concepts, concept)
    /\ lastCall' = [op |-> "learnFromUserFeedback", path |-> "", labels |-> <<>>,
                    indexed |-> FALSE]
    /\ returned' = <<>>
    /\ UNCHANGED <<sensitivity, tokens, content, processorVars, dataVars>>

LearnFromUserFeedback(concept, isRelevant) ==
    /\ userFeedback' = MapSet(userFeedback, concept, isRelevant)
    /\ lastCall' = [op |-> "learnFromUserFeedback", path |-> "", labels |-> <<>>,
                    indexed |-> FALSE]
    /\ returned' = <<>>
    /\ UNCHANGED <<notes, concepts, sensitivity, tokens, content,
                   processorVars, dataVars>>

ExtractConcepts ==
    /\ lastCall' = [op |-> "extractConcepts", path |-> "", labels |-> <<>>,
                    indexed |-> FALSE]
    /\ returned' = extractConcepts(content, sensitivity, userFeedback)
    /\ UNCHANGED <<notes, concepts, extractorVars, processorVars, dataVars>>

ConceptInit ==
    /\ notes = EmptyMap
    /\ concepts = EmptyMap
    /\ lastCall = NoCall
    /\ returned = <<>>
    /\ sensitivity = DefaultSensitivity
    /\ content \in Contents
    /\ tokens = tokenize(content)
    /\ userFeedback = EmptyMap
    /\ ProcessorInit
    /\ realTimeSuggestions = TRUE
    /\ DataInit

ConceptNext ==
    \/ \E level \in MinSensitivity..MaxSensitivity : SetSensitivity(level)
    \/ \E concept \in FeedbackLabels, isRelevant \in BOOLEAN :
           LearnFromUserFeedback(concept, isRelevant)
    \/ ExtractConcepts

ConceptSpec == ConceptInit /\ [][ConceptNext]_vars

\* the levels the sensitivity slider is moved to
SliderLevels == DefaultSensitivity..(DefaultSensitivity + LevelSpan)

\* the feedback tables that feedback on the first label can build
FeedbackTables == {EmptyMap} \cup {MapSet(EmptyMap, AllLabels[1], r) : r \in BOOLEAN}

\* extractConcepts for every text a file can hold, at every level of the
\* slider and with every feedback table, worked out once
ExtractedConcepts ==
    [t \in Texts |-> [s \in SliderLevels |-> [fb \in FeedbackTables |->
        extractConcepts(t, s, fb)]]]

\* ------------------------------------------------------- the note processor
\* Events of the vault and the workspace, each with its handler up to the
\* first await, and the resumptions of the suspended processNote calls.
CanStart == SumUpTo(InFlight, NumFiles) < MaxTasks

\* the file is written (text and stat.mtime change); 'modify' handler
Modify(f, text) ==
    /\ ~vault[f].deleted
    /\ vault[f].mtime < MaxMtime
    /\ CanStart
    /\ vault' = [vault EXCEPT ![f].text = text, ![f].mtime = @ + 1]
    /\ tasks' = IF realTimeSuggestions
                 THEN startProcessNote(written(tasks, f, text), processedFiles, f, vault'[f])
                 ELSE written(tasks, f, text)
    /\ UNCHANGED <<notes, concepts, lastCall, returned, extractorVars, batch,
                   dataVars,
                   processedFiles, realTimeSuggestions>>

\* the file becomes the active note; 'active-leaf-change' handler
ActiveLeafChange(f) ==
    /\ ~vault[f].deleted
    /\ CanStart
    /\ realTimeSuggestions
    /\ tasks' = startProcessNote(tasks, processedFiles, f, vault[f])
    /\ UNCHANGED <<notes, concepts, lastCall, returned, extractorVars, batch,
                   dataVars,
                   vault, processedFiles, realTimeSuggestions>>

\* the command 'Extract Concepts from Current Note' while the file is active
ExtractConceptsCommand(f) ==
    /\ ~vault[f].deleted
    /\ CanStart
    /\ tasks' = startProcessNote(tasks, processedFiles, f, vault[f])
    /\ UNCHANGED <<notes, concepts, lastCall, returned, extractorVars, batch,
                   dataVars,
                   vault, processedFiles, realTimeSuggestions>>

\* the file moves to a free path; 'rename' handler
Rename(f, newPath) ==
    /\ ~vault[f].deleted
    /\ CanStart
    /\ \A other \in FileIds : ~vault[other].deleted => vault[other].path # newPath
    /\ LET g == removeNote(Graph, vault[f].path)
       IN /\ notes' = g.notes
          /\ concepts' = g.concepts
    /\ vault' = [vault EXCEPT ![f].path = newPath]
    /\ tasks' = startProcessNote(tasks, processedFiles, f, vault'[f])
    /\ UNCHANGED <<lastCall, returned, extractorVars, batch, dataVars,
                   processedFiles, realTimeSuggestions>>

\* the file is deleted; 'delete' handler, saveConceptData included
Delete(f) ==
    /\ ~vault[f].deleted
    /\ vault' = [vault EXCEPT ![f].deleted = TRUE]
    /\ LET g == removeNote(Graph, vault[f].path)
       IN /\ notes' = g.notes
          /\ concepts' = g.concepts
    /\ saved' = FileOf(data)
    /\ UNCHANGED <<lastCall, returned, extractorVars, batch, data, loaded,
                   processedFiles, tasks, realTimeSuggestions>>

\* A pending vault.read resolves with one of the texts it can have read: a
\* read called before the file was written or deleted may already hold the
\* earlier text. Then extract, addNote, mark as processed with the file's
\* present path and mtime, suspend at save.
ReadResumes(f) ==
    \E i \in 1..Len(tasks[f].mayRead) :
        \E text \in tasks[f].mayRead[i] :
            /\ LET file == vault[f]
                   found == ExtractedConcepts[text][sensitivity][userFeedback]
                   g == addNote(Graph, file.path, found, 0)
               IN /\ notes' = g.notes
                  /\ concepts' = g.concepts
                  /\ processedFiles' = MapSet(processedFiles, file.path, file.mtime)
            /\ tasks' = [tasks EXCEPT ![f].read = @ - 1, ![f].save = @ + 1,
                                      ![f].mayRead = dropAt(@, i)]
            /\ UNCHANGED <<lastCall, returned, extractorVars, batch, dataVars, vault,
                           realTimeSuggestions>>

\* a pending vault.read rejects: caught and logged
ReadFails(f) ==
    \E i \in 1..Len(tasks[f].mayRead) :
        /\ tasks' = [tasks EXCEPT ![f].read = @ - 1, ![f].mayRead = dropAt(@, i)]
        /\ UNCHANGED <<notes, concepts, lastCall, returned, extractorVars, batch,
                       dataVars,
                       vault, processedFiles, realTimeSuggestions>>

\* saveCallback (saveConceptData) has written the data file: processNote returns
SaveResumes(f) ==
    /\ tasks[f].save > 0
    /\ tasks' = [tasks EXCEPT ![f].save = @ - 1]
    /\ saved' = FileOf(data)
    /\ UNCHANGED <<notes, concepts, lastCall, returned, extractorVars, batch,
                   data, loaded, vault, processedFiles, realTimeSuggestions>>

\* the plugin after onload: realTimeSuggestions is what loadSettings found
ProcInit ==
    /\ notes = EmptyMap
    /\ concepts = EmptyMap
    /\ lastCall = NoCall
    /\ returned = <<>>
    /\ sensitivity = DefaultSensitivity
    /\ tokens = BlankTokens
    /\ content = <<>>
    /\ userFeedback = EmptyMap
    /\ ProcessorInit
    /\ DataInit
    /\ realTimeSuggestions \in BOOLEAN

ProcNext ==
    \/ \E f \in FileIds, text \in Texts : Modify(f, text)
    \/ \E f \in FileIds : ActiveLeafChange(f)
    \/ \E f \in FileIds : ExtractConceptsCommand(f)
    \/ \E f \in FileIds, newPath \in FilePaths : Rename(f, newPath)
    \/ \E f \in FileIds : Delete(f)
    \/ \E f \in FileIds : ReadResumes(f)
    \/ \E f \in FileIds : ReadFails(f)
    \/ \E f \in FileIds : SaveResumes(f)

ProcSpec == ProcInit /\ [][ProcNext]_vars

\* the files are written and opened, never renamed or deleted, and every
\* read resolves
OverlapNext ==
    \/ \E f \in FileIds, text \in Texts : Modify(f, text)
    \/ \E f \in FileIds : ActiveLeafChange(f)
    \/ \E f \in FileIds : ReadResumes(f)
    \/ \E f \in FileIds : SaveResumes(f)

OverlapSpec == ProcInit /\ [][OverlapNext]_vars

\* ------------------------------------------------------------ processAllNotes
\* vault.getMarkdownFiles()
getMarkdownFiles(v) ==
    LET exists(f) == ~v[f].deleted
    IN SelectSeq([f \in FileIds |-> f], exists)

\* the loop of processAllNotes from the files left to the next real wait:
\* processNote returns at once for a file that needs no processing
RECURSIVE skipProcessed(_, _, _)
skipProcessed(files, pf, v) ==
    IF files = <<>> THEN <<>>
    ELSE IF shouldProcessNote(pf, v[Head(files)]) THEN files
    ELSE skipProcessed(Tail(files), pf, v)

\* the loop waits at the vault.read of the next file to process, or, the
\* files done, at the final saveCallback
continueBatch(b, files, pf, v) ==
    LET rest == skipProcessed(files, pf, v)
    IN [b EXCEPT !.files = rest, !.pc = IF rest = <<>> THEN "final" ELSE "read"]

\* a read failure that ends the whole batch
abortOnFailure(b, pf, v) ==
    [b EXCEPT !.pc = "idle", !.files = <<>>, !.failed = @ \cup {Head(b.files)}]

\* processNote's catch: the failure is logged, processNote returns, the loop goes on
skipFailed(b, pf, v) ==
    continueBatch([b EXCEPT !.failed = @ \cup {Head(b.files)}], Tail(b.files), pf, v)

\* the settings object that saveSettings writes
settingsWith(level, rts) ==
    [extractionSensitivity |-> level, maxRelatedNotes |-> 10,
     realTimeSuggestions |-> rts, includeTags |-> TRUE, includeLinks |-> TRUE]

\* the 'Reprocess' button, or onload's own call, while no batch is running
ReprocessAllNotes ==
    /\ batch.pc = "idle"
    /\ LET files == getMarkdownFiles(vault)
       IN batch' = continueBatch([NoBatch EXCEPT !.listed = files], files,
                                 processedFiles, vault)
    /\ UNCHANGED <<notes, concepts, lastCall, returned, extractorVars, dataVars,
                   vault, processedFiles, tasks, realTimeSuggestions>>

\* the batch's vault.read resolves: extract, addNote, mark as processed,
\* wait for processNote's saveCallback
BatchReadResumes ==
    /\ batch.pc = "read"
    /\ LET f == Head(batch.files)
           file == vault[f]
           found == ExtractedConcepts[file.text][sensitivity][userFeedback]
           g == addNote(Graph, file.path, found, 0)
       IN /\ notes' = g.notes
          /\ concepts' = g.concepts
          /\ processedFiles' = MapSet(processedFiles, file.path, file.mtime)
          /\ batch' = [batch EXCEPT !.pc = "save", !.indexed = @ \cup {f}]
    /\ UNCHANGED <<lastCall, returned, extractorVars, dataVars, vault, tasks,
                   realTimeSuggestions>>

\* the batch's vault.read rejects
BatchReadFails ==
    /\ batch.pc = "read"
    /\ batch' = skipFailed(batch, processedFiles, vault)
    /\ UNCHANGED <<notes, concepts, lastCall, returned, extractorVars, dataVars,
                   vault, processedFiles, tasks, realTimeSuggestions>>

\* processNote's saveCallback has written the data file: next file
BatchSaveResumes ==
    /\ batch.pc = "save"
    /\ saved' = FileOf(data)
    /\ batch' = continueBatch(batch, Tail(batch.files), processedFiles, vault)
    /\ UNCHANGED <<notes, concepts, lastCall, returned, extractorVars, data, loaded,
                   vault, processedFiles, tasks, realTimeSuggestions>>

\* the final saveCallback has written the data file: processAllNotes returns
BatchFinalSave ==
    /\ batch.pc = "final"
    /\ saved' = FileOf(data)
    /\ batch' = [batch EXCEPT !.pc = "idle"]
    /\ lastCall' = [op |-> "processAllNotes", path |-> "", labels |-> <<>>,
                    indexed |-> FALSE]
    /\ returned' = <<>>
    /\ UNCHANGED <<notes, concepts, extractorVars, data, loaded,
                   vault, processedFiles, tasks, realTimeSuggestions>>

\* the sensitivity slider moves to level: saveSettings
SaveSettings(level) ==
    /\ saved' = FileOf(settingsWith(level, realTimeSuggestions))
    /\ sensitivity' = setSensitivity(level)
    /\ lastCall' = [op |-> "saveSettings", path |-> "", labels |-> <<>>,
                    indexed |-> FALSE]
    /\ returned' = <<>>
    /\ UNCHANGED <<notes, concepts, tokens, content, userFeedback, processorVars,
                   data, loaded>>

\* the slider is moved while no batch runs
MoveSlider(level) ==
    /\ batch.pc = "idle"
    /\ SaveSettings(level)

\* feedback is given while no batch runs
GiveFeedback(concept, isRelevant) ==
    /\ batch.pc = "idle"
    /\ LearnFromUserFeedback(concept, isRelevant)

\* The plugin with realTimeSuggestions off: a file is indexed by
\* processAllNotes only. Files are written at any time; the slider is moved
\* and feedback is given between two runs of processAllNotes, not during one.
BatchInit ==
    /\ notes = EmptyMap
    /\ concepts = EmptyMap
    /\ lastCall = NoCall
    /\ returned = <<>>
    /\ sensitivity = DefaultSensitivity
    /\ tokens = BlankTokens
    /\ content = <<>>
    /\ userFeedback = EmptyMap
    /\ ProcessorInit
    /\ DataInit
    /\ realTimeSuggestions = FALSE

BatchStep ==
    \/ BatchReadResumes
    \/ BatchReadFails
    \/ BatchSaveResumes
    \/ BatchFinalSave

BatchNext ==
    \/ ReprocessAllNotes
    \/ BatchStep
    \/ \E f \in FileIds, text \in Texts : Modify(f, text)
    \/ \E level \in SliderLevels : MoveSlider(level)
    \/ \E isRelevant \in BOOLEAN : GiveFeedback(AllLabels[1], isRelevant)

BatchSpec == BatchInit /\ [][BatchNext]_vars

\* every wait of the batch ends: a read resolves or rejects, a save completes
FairBatchSpec == BatchSpec /\ WF_vars(BatchStep)

\* --------------------------------------------------------- the data manager
\* a.field || {} for a field that is an object when it is there
fieldOr(object, field, default) ==
    IF field \in DOMAIN object THEN object[field] ELSE default

\* a migration that keeps nothing of the old data
migrateDropping(oldData) == EmptyData

\* DataManagerImpl.migrateData
migrateData(oldData) ==
    [version |-> CURRENT_VERSION,
     notes |-> fieldOr(oldData, "notes", EmptyMap),
     concepts |-> fieldOr(oldData, "concepts", EmptyMap),
     userFeedback |-> fieldOr(oldData, "userFeedback", EmptyMap)]

\* savedData.version !== this.CURRENT_VERSION, a missing version being undefined
versionDiffers(object) ==
    "version" \notin DOMAIN object \/ object["version"] # CURRENT_VERSION

\* a load that installs whatever it gets
loadWithoutFallback(current, file) ==
    IF file.kind = "object" THEN file.value ELSE <<>>

\* the data in use after loadConceptData, current being the data before it
loadConceptData(current, file) ==
    IF file.kind = "corrupt" THEN current
    ELSE IF file.kind = "none" THEN current
    ELSE IF versionDiffers(file.value) THEN migrateData(file.value)
    ELSE file.value

\* What the data file can hold when the plugin starts: nothing, something
\* unreadable, or an object with or without each field of a snapshot, the
\* version from 0 to MaxStoredVersion. A field is <<>> when it is missing and
\* <<value>> when it is there.
SomeNotes == MapSet(EmptyMap, "a.md", [concepts |-> <<"latency">>, lastUpdated |-> 0])
SomeConcepts == MapSet(EmptyMap, "latency", [notePaths |-> <<"a.md">>, weight |-> 1])
SomeFeedback == MapSet(EmptyMap, "latency", FALSE)

ObjectOf(fields) ==
    [k \in {f \in DOMAIN fields : fields[f] # <<>>} |-> fields[k][1]]

StoredObjects ==
    {ObjectOf([version |-> v, notes |-> n, concepts |-> c, userFeedback |-> u]) :
        v \in {<<>>} \cup {<<i>> : i \in 0..MaxStoredVersion},
        n \in {<<>>, <<EmptyMap>>, <<SomeNotes>>},
        c \in {<<>>, <<EmptyMap>>, <<SomeConcepts>>},
        u \in {<<>>, <<EmptyMap>>, <<SomeFeedback>>}}

StoredFiles == {NoFile, CorruptFile} \cup {FileOf(object) : object \in StoredObjects}

\* onload's loadConceptData, before anything else can call the plugin
LoadConceptData ==
    /\ ~loaded
    /\ data' = loadConceptData(data, saved)
    /\ loaded' = TRUE
    /\ lastCall' = [op |-> "loadConceptData", path |-> "", labels |-> <<>>,
                    indexed |-> FALSE]
    /\ returned' = <<>>
    /\ UNCHANGED <<notes, concepts, extractorVars, processorVars, saved>>

\* the 'Clear Data' button, confirmed
ClearData ==
    /\ loaded
    /\ data' = EmptyData
    /\ saved' = FileOf(EmptyData)
    /\ lastCall' = [op |-> "clearData", path |-> "", labels |-> <<>>,
                    indexed |-> FALSE]
    /\ returned' = <<>>
    /\ UNCHANGED <<notes, concepts, extractorVars, processorVars, loaded>>

SaveConceptData ==
    /\ loaded
    /\ saved' = FileOf(data)
    /\ lastCall' = [op |-> "saveConceptData", path |-> "", labels |-> <<>>,
                    indexed |-> FALSE]
    /\ returned' = <<>>
    /\ UNCHANGED <<notes, concepts, extractorVars, processorVars, data, loaded>>

\* a note is indexed, once the plugin has loaded
IndexNote(path, labels) ==
    /\ loaded
    /\ AddNoteAt(path, labels, 0)

\* a note is deleted, once the plugin has loaded
ForgetNote(path) ==
    /\ loaded
    /\ RemoveNote(path)

\* the plugin when onload reaches loadConceptData
DataManagerInit ==
    /\ notes = EmptyMap
    /\ concepts = EmptyMap
    /\ lastCall = NoCall
    /\ returned = <<>>
    /\ sensitivity = DefaultSensitivity
    /\ tokens = BlankTokens
    /\ content = <<>>
    /\ userFeedback = EmptyMap
    /\ ProcessorInit
    /\ realTimeSuggestions = TRUE
    /\ data = EmptyData
    /\ saved \in StoredFiles
    /\ loaded = FALSE

DataManagerNext ==
    \/ LoadConceptData
    \/ ClearData
    \/ SaveConceptData
    \/ \E path \in Paths, labels \in QueryLabelLists : IndexNote(path, labels)
    \/ \E path \in Paths : ForgetNote(path)

DataSpec == DataManagerInit /\ [][DataManagerNext]_vars

\* ------------------------------------------------------------ claim helpers
\* the labels a path currently holds, as a set ({} when it is not indexed)
Held(path) == Range(getNoteConcepts(Graph, path))

\* the documentIds of a label, as a set ({} when the graph has no such concept)
DocumentIds(c) == IF c \in DOMAIN concepts THEN Range(concepts[c].notePaths) ELSE {}

\* the concept sets of the notes of a graph, without their timestamps
NoteConcepts(g) == [p \in DOMAIN g.notes |-> g.notes[p].concepts]

RECURSIVE SumWeights(_, _)
SumWeights(cs, S) ==
    IF S = {} THEN 0
    ELSE LET c == CHOOSE x \in S : TRUE
         IN (IF c \in DOMAIN cs THEN cs[c].weight ELSE 0) + SumWeights(cs, S \ {c})

\* ------------------------------------------------------------------- claims
\* C1: in every reachable state every concept's weight equals the number of
\* documents in its document set.
WeightIsDocumentCount ==
    \A c \in DOMAIN concepts :
        concepts[c].weight = Cardinality(Range(concepts[c].notePaths))

C1Witness ==
    /\ lastCall.op = "addNote"
    /\ \E c \in DOMAIN concepts : concepts[c].weight = 2

\* C2: a document is in a concept's document set exactly when the document is
\* indexed and currently holds that concept, so a concept's weight is the
\* number of documents that currently hold it.
MembershipMatchesNotes ==
    /\ \A c \in Labels, d \in Paths : d \in DocumentIds(c) <=> c \in Held(d)
    /\ \A c \in DOMAIN concepts :
          concepts[c].weight = Cardinality({d \in Paths : c \in Held(d)})

\* C3: addNote(id, L1) then addNote(id, L2) detaches id from every concept of
\* L1 \ L2 (its weight being the size of what is left), attaches it to every
\* concept of L2, and leaves no concept without documents.
ReAddDetaches ==
    [][(/\ lastCall.op = "addNote"
        /\ lastCall'.op = "addNote"
        /\ lastCall'.path = lastCall.path)
       => LET path == lastCall.path
              L1 == Range(lastCall.labels)
              L2 == Range(lastCall'.labels)
          IN /\ \A c \in L1 \ L2 : path \notin DocumentIds(c)'
             /\ \A c \in L2 : path \in DocumentIds(c)'
             /\ \A c \in DOMAIN concepts' :
                   /\ concepts'[c].weight = Cardinality(DocumentIds(c)')
                   /\ DocumentIds(c)' # {}]_vars

\* C4: no concept of the graph has an empty document set: a concept goes in
\* the step that removes its last document.
NoEmptyConcept ==
    \A c \in DOMAIN concepts : Len(concepts[c].notePaths) >= 1

C4Witness ==
    /\ lastCall.op = "removeNote"
    /\ lastCall.indexed
    /\ \E c \in Labels : c \notin DOMAIN concepts
    /\ \E c \in Labels : c \in DOMAIN concepts

\* C5: updateNoteConcepts(id, L) leaves the graph (concept sets, document sets,
\* weights) as addNote(id, L) would.
UpdateEqualsAdd ==
    [][lastCall'.op = "updateNoteConcepts"
       => LET g == addNote(Graph, lastCall'.path, lastCall'.labels, 0)
          IN /\ concepts' = g.concepts
             /\ NoteConcepts(Graph)' = NoteConcepts(g)]_vars

\* C6: after removeNote(id) of an indexed document no concept's document set
\* contains id, getNoteConcepts(id) is empty and findRelatedNotes(id) is empty.
RemoveDetachesEverywhere ==
    [][(lastCall'.op = "removeNote" /\ lastCall'.indexed)
       => LET path == lastCall'.path
          IN /\ \A c \in Labels : path \notin DocumentIds(c)'
             /\ getNoteConcepts(Graph', path) = <<>>
             /\ findRelatedNotes(Graph', path, DefaultMaxResults, Paths) = <<>>]_vars

\* C7: removeNote(id) of a document that is not indexed changes nothing.
RemoveUnknownNoChange ==
    [][(lastCall'.op = "removeNote" /\ ~lastCall'.indexed)
       => UNCHANGED <<notes, concepts>>]_vars

C7Witness ==
    /\ lastCall.op = "removeNote"
    /\ ~lastCall.indexed
    /\ \E c \in DOMAIN concepts : lastCall.path \in Range(concepts[c].notePaths)

\* C8: after addNote(id, L) getNoteConcepts(id) is L as a set, and
\* getNoteConcepts of a document that is not indexed returns the empty sequence.
GetAfterAdd ==
    [][/\ lastCall'.op = "addNote"
          => Range(getNoteConcepts(Graph', lastCall'.path)) = Range(lastCall'.labels)
       /\ (lastCall'.op = "getNoteConcepts" /\ ~lastCall'.indexed)
          => returned' = <<>>]_vars

C8Witness ==
    /\ lastCall.op = "addNote"
    /\ lastCall.indexed
    /\ Len(lastCall.labels) = 2
    /\ getNoteConcepts(Graph, lastCall.path) = lastCall.labels

\* C9: a second addNote(id, L) right after addNote(id, L) changes no concept
\* set, document set or weight.
AddNoteIdempotent ==
    [][lastCall'.op = "addNote"
       => LET once == Graph'
              twice == addNote(once, lastCall'.path, lastCall'.labels, 0)
          IN /\ twice.concepts = once.concepts
             /\ NoteConcepts(twice) = NoteConcepts(once)]_vars

C9Witness ==
    /\ lastCall.op = "addNote"
    /\ lastCall.indexed
    /\ \E c \in Range(lastCall.labels) : concepts[c].weight = 2

\* C10: in findRelatedNotes(q) the candidates are the other documents that
\* share a concept with q, and a candidate's raw score is the sum of the
\* weights of the distinct concepts it shares with q, each counted once.
RawScoreIsSharedWeightSum ==
    (lastCall.op = "findRelatedNotes" /\ lastCall.indexed)
    => LET q == lastCall.path
           scores == relatedScores(Graph, q)
       IN \A d \in Paths \ {q} :
             LET shared == Held(q) \cap Held(d)
             IN /\ d \in DOMAIN scores.data <=> shared # {}
                /\ d \in DOMAIN scores.data
                   => scores.data[d].relevance = SumWeights(concepts, shared)

\* ------------------------------------------------ claims C11..C20: helpers
\* the number of entries of a sequence that satisfy a test
CountIn(s, Test(_)) == Cardinality({i \in 1..Len(s) : Test(s[i])})

\* the raw score the last findRelatedNotes call gave each candidate
LastScores == relatedScores(Graph, lastCall.path).data

\* the candidates of the last findRelatedNotes call that the vault resolves
LastCandidates == DOMAIN LastScores \cap lastCall.files

\* C11: every returned relevance is in [0,1], and a non-empty result of a call
\* with maxResults >= 1 starts with a result of relevance exactly 1.0.
TopRelevanceIsOne ==
    (lastCall.op = "findRelatedNotes" /\ lastCall.indexed)
    => /\ \A i \in 1..Len(returned) :
             /\ 0 <= returned[i].relevance.num
             /\ returned[i].relevance.num <= returned[i].relevance.den
       /\ (returned # <<>> /\ lastCall.maxResults >= 1)
          => returned[1].relevance.num = returned[1].relevance.den

\* C12: findRelatedNotes of an indexed document that currently shares no
\* concept with any other indexed document returns the empty result.
NoSharedConceptNoResult ==
    (/\ lastCall.op = "findRelatedNotes"
     /\ lastCall.indexed
     /\ \A d \in DOMAIN notes \ {lastCall.path} : Held(lastCall.path) \cap Held(d) = {})
    => returned = <<>>

\* C13: the result of findRelatedNotes is sorted by relevance, highest first,
\* holds at most maxResults entries, and an entry is left out only when
\* maxResults entries of at least its relevance are returned.
SortedAndTruncated ==
    (lastCall.op = "findRelatedNotes" /\ lastCall.indexed)
    => /\ \A i, j \in 1..Len(returned) :
             i < j => ~RelevanceLess(returned[i].relevance, returned[j].relevance)
       /\ Len(returned) <= lastCall.maxResults
       /\ {returned[i].file : i \in 1..Len(returned)} \subseteq LastCandidates
       /\ \A d \in LastCandidates \ {returned[i].file : i \in 1..Len(returned)} :
             /\ Len(returned) = lastCall.maxResults
             /\ \A i \in 1..Len(returned) : LastScores[d].relevance <= returned[i].relevance.num

C13Witness ==
    /\ lastCall.op = "findRelatedNotes"
    /\ lastCall.indexed
    /\ lastCall.maxResults = 1
    /\ Len(returned) = 1
    /\ Cardinality(LastCandidates) = 2
    /\ relatedScores(Graph, lastCall.path).order[1] # returned[1].file
    /\ \E d \in LastCandidates : LastScores[d].relevance < returned[1].relevance.num

\* C14: findRelatedNotes of a document that is not indexed returns the empty
\* result.
UnknownHasNoRelated ==
    (lastCall.op = "findRelatedNotes" /\ ~lastCall.indexed) => returned = <<>>

C14Witness ==
    /\ lastCall.op = "findRelatedNotes"
    /\ ~lastCall.indexed
    /\ returned = <<>>
    /\ \E d \in DOMAIN notes \cap lastCall.files :
          \E c \in Held(d) : lastCall.path \in DocumentIds(c)

\* C16: the network has exactly one node per indexed document, exactly one
\* concept node per concept with more than one document and none for the
\* others, and exactly one edge per document of each concept it shows.
NetworkShape ==
    lastCall.op = "getConceptNetwork"
    => LET nodes == returned.nodes
           edges == returned.edges
       IN /\ \A p \in Paths :
                CountIn(nodes, LAMBDA n : n.type = "note" /\ n.id = p)
                   = IF p \in DOMAIN notes THEN 1 ELSE 0
          /\ \A c \in Labels :
                CountIn(nodes, LAMBDA n : n.type = "concept" /\ n.label = c)
                   = IF Cardinality(DocumentIds(c)) > 1 THEN 1 ELSE 0
          /\ \A c \in Labels, d \in Paths :
                CountIn(edges, LAMBDA e : e.source = conceptNodeId(c) /\ e.target = d)
                   = IF Cardinality(DocumentIds(c)) > 1 /\ d \in DocumentIds(c)
                     THEN 1 ELSE 0
          /\ Len(nodes) = Cardinality(DOMAIN notes)
                + Cardinality({c \in Labels : Cardinality(DocumentIds(c)) > 1})

C16Witness ==
    /\ lastCall.op = "getConceptNetwork"
    /\ Len(returned.edges) = 2
    /\ \E c \in DOMAIN concepts : Len(concepts[c].notePaths) = 1

\* C17: getConceptNetwork, findRelatedNotes and getNoteConcepts leave the
\* document map and the concept map as they were.
QueriesDoNotMutate ==
    [][lastCall'.op \in {"getConceptNetwork", "findRelatedNotes", "getNoteConcepts"}
       => UNCHANGED <<notes, concepts>>]_vars

C17Witness ==
    /\ lastCall.op = "getConceptNetwork"
    /\ Len(returned.nodes) = 2
    /\ \E c \in DOMAIN concepts : Len(concepts[c].notePaths) = 1

\* C18: when the frequency strategy has run at the current sensitivity, every
\* lower sensitivity has a threshold at least as high and a cap at least as
\* low, and yields no more terms for the same text.
HigherSensitivityExtractsMore ==
    lastCall.op = "extractFromTfIdf" =>
        \A s1 \in MinSensitivity..MaxSensitivity :
            s1 < sensitivity =>
                /\ threshold(sensitivity) <= threshold(s1)
                /\ cap(sensitivity) >= cap(s1)
                /\ Len(returned) >= Len(extractFromTfIdf(tokens, s1))

\* C19: the stored sensitivity is always in 1..10; after setSensitivity(level)
\* it is 1 for a level below 1, 10 for a level above 10 and the level itself
\* otherwise; and setSensitivity can be called with every integer.
SensitivityClamped ==
    /\ sensitivity \in 1..10
    /\ lastCall.op = "setSensitivity" =>
           sensitivity = IF lastCall.level < 1 THEN 1
                         ELSE IF lastCall.level > 10 THEN 10
                         ELSE lastCall.level
    /\ \A level \in SensitivityArgs : ENABLED SetSensitivity(level)

C19Witness ==
    /\ lastCall.op = "setSensitivity"
    /\ lastCall.level < 1
    /\ sensitivity = 1

\* the count of a term in the stopword-filtered stream of the text
FilteredCount(t) ==
    IF t \in stopWords \/ Len(t) <= 1 THEN 0
    ELSE Cardinality({i \in 1..Len(tokens) : tokens[i] = t})

\* the terms whose count reaches max(2, floor(20 / (11 - sensitivity)))
Qualified ==
    LET quotient == 20 \div (11 - sensitivity)
        atLeast == IF quotient > 2 THEN quotient ELSE 2
    IN {t \in Range(tokens) : FilteredCount(t) >= atLeast}

\* C20: what the frequency strategy returns holds only qualified terms, each
\* once, by count descending, as many as there are qualified terms up to
\* sensitivity * 3, and no left-out qualified term has a higher count than a
\* returned one; the error-handling text at sensitivity 5 yields error and
\* handling.
FrequencyStrategyResult ==
    lastCall.op = "extractFromTfIdf" =>
        LET n == Len(returned)
            most == sensitivity * 3
        IN /\ Range(returned) \subseteq Qualified
           /\ \A i, j \in 1..n :
                  i < j => /\ returned[i] # returned[j]
                           /\ FilteredCount(returned[i]) >= FilteredCount(returned[j])
           /\ n = IF Cardinality(Qualified) < most THEN Cardinality(Qualified) ELSE most
           /\ \A t \in Qualified \ Range(returned) :
                  \A i \in 1..n : FilteredCount(returned[i]) >= FilteredCount(t)
           /\ (tokens = ScenarioTokens /\ sensitivity = 5) =>
                  /\ most = 15
                  /\ FilteredCount("error") = 4
                  /\ FilteredCount("handling") = 3
                  /\ returned = <<"error", "handling">>

\* the frequency strategy has cut the qualified terms to sensitivity * 3
C20Witness ==
    /\ lastCall.op = "extractFromTfIdf"
    /\ Len(returned) = sensitivity * 3
    /\ Cardinality(Qualified) > Len(returned)

\* C15: no file ever has two processNote calls suspended between their text
\* read and their addNote.
ProcessNoteSerialized == \A f \in FileIds : tasks[f].read <= 1

\* ------------------------------------------------------------ claims C21..C30
\* C30: removeNote(id) of an indexed document lowers by one the weight of
\* every concept id held, keeping it with its other documents when it has any
\* and deleting it when it has none, and leaves every other concept and every
\* other document as it was.
RemoveLowersHeldByOne ==
    [][(lastCall'.op = "removeNote" /\ lastCall'.indexed)
       => LET path == lastCall'.path
              held == Range(notes[path].concepts)
          IN /\ \A c \in held :
                    /\ c \in DOMAIN concepts
                    /\ LET others == Range(concepts[c].notePaths) \ {path}
                       IN IF others = {}
                          THEN c \notin DOMAIN concepts'
                          ELSE /\ c \in DOMAIN concepts'
                               /\ concepts'[c].weight = concepts[c].weight - 1
                               /\ Range(concepts'[c].notePaths) = others
             /\ \A c \in DOMAIN concepts \ held :
                    c \in DOMAIN concepts' /\ concepts'[c] = concepts[c]
             /\ DOMAIN concepts' \subseteq DOMAIN concepts
             /\ \A p \in DOMAIN notes \ {path} :
                    p \in DOMAIN notes' /\ notes'[p] = notes[p]]_vars

\* C21: what extractConcepts returns holds no label whose feedback is false.
NegativeFeedbackFilters ==
    lastCall.op = "extractConcepts" =>
        \A x \in DOMAIN userFeedback :
            userFeedback[x] = FALSE => x \notin Range(returned)

\* extractConcepts has run on a text that yields x without feedback, x being
\* marked not relevant
C21Witness ==
    /\ lastCall.op = "extractConcepts"
    /\ \E x \in DOMAIN userFeedback :
           /\ userFeedback[x] = FALSE
           /\ x \in Range(extractConcepts(content, sensitivity, EmptyMap))
           /\ x \notin Range(returned)

\* the text is empty or holds nothing but whitespace
IsBlank(t) == \A i \in 1..Len(t) : t[i] \in {" ", "\n", "\t"}

\* C23: on an empty or whitespace-only text extractConcepts can be called and
\* returns no label, at every sensitivity and with every feedback table.
BlankTextYieldsNothing ==
    IsBlank(content) =>
        /\ ENABLED ExtractConcepts
        /\ lastCall.op = "extractConcepts" => returned = <<>>

\* extractConcepts has run on a whitespace-only text, away from the default
\* sensitivity and with feedback recorded
C23Witness ==
    /\ lastCall.op = "extractConcepts"
    /\ content # <<>>
    /\ IsBlank(content)
    /\ sensitivity # DefaultSensitivity
    /\ userFeedback # EmptyMap
    /\ returned = <<>>

\* C26: right after clearData the graph holds no document and no concept,
\* getNoteConcepts and findRelatedNotes return nothing for every path, and the
\* data file holds the empty snapshot.
ClearDataResetsAll ==
    lastCall.op = "clearData" =>
        /\ notes = EmptyMap
        /\ concepts = EmptyMap
        /\ \A path \in Paths :
               /\ getNoteConcepts(Graph, path) = <<>>
               /\ findRelatedNotes(Graph, path, DefaultMaxResults, Paths) = <<>>
        /\ saved = FileOf([version |-> 1, notes |-> EmptyMap, concepts |-> EmptyMap,
                           userFeedback |-> EmptyMap])

\* C28: loadConceptData can always run, and right after it has run on a
\* missing or unreadable data file the data in use is the empty index.
LoadNeverFails ==
    /\ ~loaded => ENABLED LoadConceptData
    /\ (lastCall.op = "loadConceptData" /\ saved \in {NoFile, CorruptFile})
          => data = [version |-> 1, notes |-> EmptyMap, concepts |-> EmptyMap,
                     userFeedback |-> EmptyMap]

C28Witness ==
    /\ lastCall.op = "loadConceptData"
    /\ saved = CorruptFile
    /\ data = EmptyData

\* the stored object carries a version older than the current one
IsOlder(file) ==
    /\ file.kind = "object"
    /\ "version" \in DOMAIN file.value
    /\ file.value["version"] < 1

CompletedProcessNoteIsDurable ==
    [][\A f \in FileIds :
          (SaveResumes(f) /\ vault[f].path \in DOMAIN notes') =>
              LET path == vault[f].path
                  held == notes'[path].concepts
              IN /\ saved'.kind = "object"
                 /\ path \in DOMAIN saved'.value.notes
                 /\ saved'.value.notes[path].concepts = held
                 /\ \A i \in 1..Len(held) :
                        /\ held[i] \in DOMAIN saved'.value.concepts
                        /\ includes(saved'.value.concepts[held[i]].notePaths, path)]_vars

\* C22: a step that changes the feedback table changes it by one upsert and
\* leaves the notes and the concepts of the graph as they were, so a label
\* indexed for a note is still indexed right after negative feedback on it.
FeedbackLeavesGraph ==
    [][userFeedback' # userFeedback =>
          /\ \E concept \in DOMAIN userFeedback' :
                 userFeedback' = MapSet(userFeedback, concept, userFeedback'[concept])
          /\ notes' = notes
          /\ concepts' = concepts]_vars

C22Witness ==
    /\ lastCall.op = "learnFromUserFeedback"
    /\ \E path \in DOMAIN notes :
           \E i \in 1..Len(notes[path].concepts) :
               LET label == notes[path].concepts[i]
               IN /\ label \in DOMAIN userFeedback
                  /\ userFeedback[label] = FALSE
                  /\ label \in DOMAIN concepts
                  /\ includes(concepts[label].notePaths, path)

\* the step on which processAllNotes returns
BatchCompletes == batch.pc # "idle" /\ batch'.pc = "idle"

\* C24: a rejected read of the batch leaves the notes and the concepts of the
\* graph as they were; when the batch returns, every file it listed other
\* than those whose read was rejected is indexed and marked as processed; and
\* a batch that runs always returns.
ReadFailureSkipsOneNote ==
    /\ [][(batch.pc = "read" /\ batch'.failed # batch.failed) =>
             (notes' = notes /\ concepts' = concepts)]_vars
    /\ [][BatchCompletes =>
             \A f \in Range(batch.listed) \ batch.failed :
                 /\ vault[f].path \in DOMAIN processedFiles'
                 /\ vault[f].path \in DOMAIN notes']_vars
    /\ (batch.pc # "idle") ~> (batch.pc = "idle")

C24Witness ==
    /\ batch.pc = "idle"
    /\ lastCall.op = "processAllNotes"
    /\ Len(batch.listed) > 1
    /\ batch.listed[1] \in batch.failed
    /\ batch.listed[2] \in batch.indexed
    /\ vault[batch.listed[1]].path \notin DOMAIN notes
    /\ vault[batch.listed[2]].path \in DOMAIN notes

\* C25: when processAllNotes returns, every markdown file whose read was not
\* rejected and which was not written since it was last marked as processed
\* has in the graph exactly the concepts extractConcepts yields for its text
\* at the sensitivity and feedback in force.
ReprocessBringsGraphUpToDate ==
    [][BatchCompletes =>
          \A f \in Range(batch.listed) \ batch.failed :
              LET file == vault'[f]
              IN (/\ file.path \in DOMAIN processedFiles'
                  /\ processedFiles'[file.path] = file.mtime)
                 => /\ file.path \in DOMAIN notes'
                    /\ Range(notes'[file.path].concepts)
                         = Range(extractConcepts(file.text, sensitivity', userFeedback'))]_vars

\* the sequence holds no value twice
NoRepeat(s) == \A i, j \in 1..Len(s) : s[i] = s[j] => i = j

\* C31: every result of findRelatedNotes has a sharedConcepts list that is not
\* empty, holds no label twice, and holds only labels that both the queried
\* note and the result's note hold in the graph.
SharedConceptsAreShared ==
    lastCall.op = "findRelatedNotes" =>
        \A i \in 1..Len(returned) :
            /\ returned[i].sharedConcepts # <<>>
            /\ NoRepeat(returned[i].sharedConcepts)
            /\ \A c \in Range(returned[i].sharedConcepts) :
                   /\ c \in Held(lastCall.path)
                   /\ c \in Held(returned[i].file)

\* C37: every result of findRelatedNotes is a note of the graph other than
\* the queried one.
ResultsAreIndexedOthers ==
    lastCall.op = "findRelatedNotes" =>
        \A i \in 1..Len(returned) :
            /\ returned[i].file \in DOMAIN notes
            /\ returned[i].file # lastCall.path

\* C38: in every network returned by getConceptNetwork each edge starts at a
\* concept node of that network and ends at a note node of that network.
NoDanglingEdges ==
    lastCall.op = "getConceptNetwork" =>
        \A e \in Range(returned.edges) :
            /\ \E n \in Range(returned.nodes) : n.type = "concept" /\ n.id = e.source
            /\ \E n \in Range(returned.nodes) : n.type = "note" /\ n.id = e.target

\* C40: after addConceptToNote(path, c) the note holds c, c's document set
\* holds the path and c's weight is the size of that set, and the note still
\* holds every label it held before; when the note held c already, the notes
\* and the concepts of the graph are as they were.
AddConceptToNoteAdds ==
    [][lastCall'.op = "addConceptToNote" =>
          LET path == lastCall'.path
              c == lastCall'.concept
          IN /\ includes(getNoteConcepts(Graph', path), c)
             /\ c \in DOMAIN concepts'
             /\ includes(concepts'[c].notePaths, path)
             /\ concepts'[c].weight = Cardinality(Range(concepts'[c].notePaths))
             /\ Range(getNoteConcepts(Graph, path))
                   \subseteq Range(getNoteConcepts(Graph', path))
             /\ includes(getNoteConcepts(Graph, path), c)
                   => (notes' = notes /\ concepts' = concepts)]_vars

\* the words of each sentence of a text
SentenceWords(t) ==
    LET sentences == splitRuns(t, {".", "!", "?"})
    IN [k \in 1..Len(sentences) |-> split(trim(sentences[k]), " ")]

\* word i of the sentence is an entity candidate: capitalized and not first
IsCandidate(words, i) == i > 1 /\ i <= Len(words) /\ isCapitalized(words[i])

\* the labels the candidates of a text allow: each candidate, and each two
\* adjacent candidates joined by a space
CandidateLabels(t) ==
    LET sw == SentenceWords(t)
    IN UNION {
         {asString(sw[k][i]) : i \in {j \in 1..Len(sw[k]) : IsCandidate(sw[k], j)}}
         \cup {asString(sw[k][i] \o <<" ">> \o sw[k][i + 1]) :
                  i \in {j \in 1..Len(sw[k]) :
                            IsCandidate(sw[k], j) /\ IsCandidate(sw[k], j + 1)}}
         : k \in 1..Len(sw)}

\* C33: extractNamedEntities emits only entity candidates, a candidate being
\* a capitalized word that is not the first of its sentence, and compounds
\* of two adjacent candidates; the first word of a sentence is in no label
\* emitted for its place.
FirstWordIsNoEntity ==
    lastCall.op = "extractConcepts" =>
        Range(extractNamedEntities(content)) \subseteq CandidateLabels(content)

\* the labels the four strategies find in a text at sensitivity s
StrategyLabels(t, s) ==
    Range(extractFromTfIdf(tokenize(t), s)) \cup Range(extractFromHeadings(t))
        \cup Range(extractFromEmphasis(t)) \cup Range(extractNamedEntities(t))

\* C32: for a text that is not blank extractConcepts returns, each once, the
\* labels of the four strategies other than those whose feedback is false.
ExtractIsFilteredUnion ==
    (lastCall.op = "extractConcepts" /\ ~IsBlank(content)) =>
        /\ NoRepeat(returned)
        /\ Range(returned) =
               {label \in StrategyLabels(content, sensitivity) :
                    ~(label \in DOMAIN userFeedback /\ userFeedback[label] = FALSE)}

C32Witness ==
    /\ lastCall.op = "extractConcepts"
    /\ ~IsBlank(content)
    /\ Cardinality(StrategyLabels(content, sensitivity)) = Len(returned) + 1
    /\ \E label \in Range(extractNamedEntities(content)) \ Range(returned) :
           label \in DOMAIN userFeedback /\ userFeedback[label] = FALSE
    /\ \E label \in Range(returned) : label \notin DOMAIN userFeedback

\* no processNote of the file is suspended
Settled(f) == tasks[f].read = 0 /\ tasks[f].save = 0

\* C34: with real-time suggestions on, every opening and every write of a
\* file calls processNote, so calls overlap when a file is written while a
\* read of it is pending. Once the calls of a file have all completed, a
\* file that is indexed and recorded as processed at its present modification
\* time has in the graph the concepts of its present text, in whatever order
\* the reads resumed.
OverlapEndsWithNewestText ==
    \A f \in FileIds :
        LET file == vault[f]
        IN (/\ realTimeSuggestions
            /\ Settled(f)
            /\ file.path \in DOMAIN notes
            /\ file.path \in DOMAIN processedFiles
            /\ processedFiles[file.path] = file.mtime)
           => Range(notes[file.path].concepts)
                = Range(extractConcepts(file.text, sensitivity, userFeedback))

\* C35: once the processNote calls of a deleted file have all completed, its
\* path, unless another file has taken it, is no note of the graph and is in
\* no concept's document set.
DeletedIsNotIndexed ==
    \A f \in FileIds :
        LET file == vault[f]
        IN (/\ file.deleted
            /\ Settled(f)
            /\ \A other \in FileIds : vault[other].path = file.path => other = f)
           => /\ file.path \notin DOMAIN notes
              /\ \A c \in DOMAIN concepts : ~includes(concepts[c].notePaths, file.path)

\* C36: the rename handler leaves the old path out of the graph, and the new
\* path either indexed or with a processNote suspended that will index it;
\* and a read of the file that resolves indexes the file's present path with
\* the concepts of a text the file held.
RenameReindexes ==
    [][\A f \in FileIds :
          /\ \A newPath \in FilePaths :
                 Rename(f, newPath) =>
                     /\ vault[f].path \notin DOMAIN notes'
                     /\ newPath \in DOMAIN notes' \/ tasks'[f].read > tasks[f].read
          /\ ReadResumes(f) =>
                 /\ vault[f].path \in DOMAIN notes'
                 /\ \E text \in Texts :
                        notes'[vault[f].path].concepts
                          = extractConcepts(text, sensitivity, userFeedback)]_vars

\* C39: a path is recorded as processed, or recorded anew, only on a step that
\* has put the path into the graph with the concepts of a text; a read that
\* rejects leaves the graph and the processed record as they were, so a file
\* that was due for processing still is; and processNote called on a file
\* that is not due starts nothing and leaves the graph as it was.
ProcessedOnlyAfterAddNote ==
    [][/\ \A path \in DOMAIN processedFiles' :
             (path \notin DOMAIN processedFiles
                 \/ processedFiles'[path] # processedFiles[path])
             => /\ path \in DOMAIN notes'
                /\ \E text \in Texts :
                       notes'[path].concepts
                         = ExtractedConcepts[text][sensitivity][userFeedback]
       /\ \A f \in FileIds :
             /\ ReadFails(f) =>
                    /\ notes' = notes
                    /\ concepts' = concepts
                    /\ processedFiles' = processedFiles
                    /\ shouldProcessNote(processedFiles, vault[f])
                          => shouldProcessNote(processedFiles', vault'[f])
             /\ (/\ ExtractConceptsCommand(f) \/ ActiveLeafChange(f)
                 /\ ~shouldProcessNote(processedFiles, vault[f]))
                => (tasks' = tasks /\ notes' = notes /\ concepts' = concepts)]_vars

C39Witness ==
    \E f \in FileIds :
        LET file == vault[f]
        IN /\ ~file.deleted
           /\ Settled(f)
           /\ ~shouldProcessNote(processedFiles, file)
           /\ file.path \in DOMAIN notes
           /\ notes[file.path].concepts # <<>>
           /\ notes[file.path].concepts
                = extractConcepts(file.text, sensitivity, userFeedback)

====
